---- MODULE Spec2Model ----
(***************************************************************************)
(* pyinfra/modules/server.py: the os-level operations `script` and `user`. *)
(* An operation is a function of its arguments and of the facts of the     *)
(* target host (pyinfra.host) that returns a list of shell commands.       *)
(* Commands are modelled as the very strings the code formats.             *)
(***************************************************************************)
EXTENDS Integers, Sequences, FiniteSets, TLC

VARIABLES host, pc, call, result, prev

vars == <<host, pc, call, result, prev>>

----------------------------------------------------------------------------
(* Bounds of the model *)

MaxKeys == 2
MaxFilenameLen == 2

----------------------------------------------------------------------------
(* Python values *)

\* Python's None: a value different from every string the model uses.
None == "<None>"

\* public_keys=None, as opposed to a list of keys (which may be empty).
NoneKeys == <<None>>

\* '{0}'.format(v): str() of the argument, so None is rendered "None".
Str(v) == IF v = None THEN "None" ELSE v

\* s.startswith(p)
StartsWith(s, p) == Len(s) >= Len(p) /\ SubSeq(s, 1, Len(p)) = p

\* What a call yields: a returned list of commands, or a raised exception
\* (and then no list at all).
Returned(commands) == [status |-> "returned", commands |-> commands]
Raised(exc) == [status |-> exc, commands |-> <<>>]

----------------------------------------------------------------------------
(* Inputs *)

Names == {"alice", "bob"}
HomePaths == {"/home/a", "/home/b"}
ShellPaths == {"/bin/sh", "/bin/bash"}
Keys == {"ssh-rsa AAA", "ssh-rsa BBB"}
FileChars == {"a", "b"}

Homes == HomePaths \cup {None}
Shells == ShellPaths \cup {None}

RECURSIVE SeqsUpTo(_, _)
SeqsUpTo(S, n) ==
    IF n = 0 THEN {<<>>}
    ELSE LET shorter == SeqsUpTo(S, n - 1)
         IN shorter \cup {Append(s, x) : s \in shorter, x \in S}

KeyLists == {NoneKeys} \cup SeqsUpTo(Keys, MaxKeys)

RECURSIVE StringsUpTo(_, _)
StringsUpTo(S, n) ==
    IF n = 0 THEN {""}
    ELSE LET shorter == StringsUpTo(S, n - 1)
         IN shorter \cup {s \o x : s \in shorter, x \in S}

Filenames == StringsUpTo(FileChars, MaxFilenameLen) \ {""}

----------------------------------------------------------------------------
(* Facts of the host *)

EmptyDict == [k \in {} |-> k]

\* host.users: None when the fact yielded nothing, else name -> {home, shell}
NoUsers == [isNone |-> TRUE, dict |-> EmptyDict]
UsersFact(d) == [isNone |-> FALSE, dict |-> d]

\* host.users or {}
UsersOrEmpty(h) == IF h.users.isNone \/ DOMAIN h.users.dict = {} THEN EmptyDict ELSE h.users.dict

\* users.get(name): the record, or None
NoneUser == [isNone |-> TRUE, home |-> None, shell |-> None]
Get(users, name) ==
    IF name \in DOMAIN users
    THEN [isNone |-> FALSE, home |-> users[name].home, shell |-> users[name].shell]
    ELSE NoneUser

\* the directory / file fact of a path: absent, or its owner, group and mode
Absent == [exists |-> FALSE, user |-> None, group |-> None, mode |-> None]
PathFact(facts, path) == IF path \in DOMAIN facts THEN facts[path] ELSE Absent

----------------------------------------------------------------------------
(* pyinfra.modules.files: the sub-operations server.py calls.              *)
(* Each compares the wanted owner, group and mode of a path with the fact  *)
(* of that path: a path that does not exist is created, a field that is    *)
(* set and differs is changed, a field left unset is not touched.          *)

FieldCommands(path, user, group, mode, fact) ==
    (IF user # None /\ fact.user # user THEN <<"chown " \o user \o " " \o path>> ELSE <<>>)
    \o (IF group # None /\ fact.group # group THEN <<"chgrp " \o group \o " " \o path>> ELSE <<>>)
    \o (IF mode # None /\ fact.mode # mode THEN <<"chmod " \o mode \o " " \o path>> ELSE <<>>)

\* files.directory(name, user=, group=, mode=)
directory(name, user, group, mode, h) ==
    LET path == Str(name)
        fact == PathFact(h.directory, path)
    IN (IF fact.exists THEN <<>> ELSE <<"mkdir -p " \o path>>)
       \o FieldCommands(path, user, group, mode, fact)

\* files.file(name, user=, group=, mode=)
files_file(name, user, group, mode, h) ==
    LET path == Str(name)
        fact == PathFact(h.file, path)
    IN (IF fact.exists THEN <<>> ELSE <<"touch " \o path>>)
       \o FieldCommands(path, user, group, mode, fact)

\* files.put(local_file, remote_file): the upload of one file
put(local_file, remote_file) == <<"put " \o local_file \o " " \o remote_file>>

----------------------------------------------------------------------------
(* hashlib.sha1, abstracted: a digest of fixed width computed from the     *)
(* bytes of its input alone (16 bits here instead of 160), and its         *)
(* rendering in lower-case hexadecimal.                                    *)

DigestBits == 16
Lower == "abcdefghijklmnopqrstuvwxyz"
Ord(c) == 96 + (CHOOSE i \in 1..Len(Lower) : SubSeq(Lower, i, i) = c)

RECURSIVE Digest(_, _)
Digest(acc, s) ==
    IF s = "" THEN acc
    ELSE Digest((acc * 31 + Ord(SubSeq(s, 1, 1))) % (2 ^ DigestBits), SubSeq(s, 2, Len(s)))

HexDigit(n) == SubSeq("0123456789abcdef", n + 1, n + 1)

RECURSIVE Hex(_, _)
Hex(n, digits) == IF digits = 0 THEN "" ELSE Hex(n \div 16, digits - 1) \o HexDigit(n % 16)

\* hash_ = sha1(); hash_.update(data); hash_.hexdigest()
hexdigest(data) == Hex(Digest(4660, data), DigestBits \div 4)

----------------------------------------------------------------------------
(* server.script *)

\* a script run before it is made executable
script_run_first(filename) ==
    Returned(put(filename, "/tmp/" \o hexdigest(filename))
             \o <<"/tmp/" \o hexdigest(filename)>>
             \o <<"chmod +x " \o "/tmp/" \o hexdigest(filename)>>)

temp_file(filename) == "/tmp/" \o hexdigest(filename)

script(filename) ==
    Returned(put(filename, temp_file(filename))
             \o <<"chmod +x " \o temp_file(filename)>>
             \o <<temp_file(filename)>>)

----------------------------------------------------------------------------
(* server.user *)

userdel(name) == "userdel " \o Str(name)
useradd(home, shell, name) ==
    "useradd -d " \o Str(home) \o " -s " \o Str(shell) \o " " \o Str(name)
usermod_d(home, name) == "usermod -d " \o Str(home) \o " " \o Str(name)
usermod_s(shell, name) == "usermod -s " \o Str(shell) \o " " \o Str(name)
append_key(filename, key) ==
    "cat " \o filename \o " | grep \"" \o key \o "\" || echo \"" \o key \o "\" >> " \o filename

\* the removal test with the existence of the user inverted
WantsRemovalOfMissing(present, rec) == ~present /\ rec.isNone

\* `if not present and user`: a record {home, shell} is a non-empty dict
WantsRemoval(present, rec) == ~present /\ ~rec.isNone

\* `if present and user is None`
WantsCreation(present, rec) == present /\ rec.isNone

\* the field checks with the shell checked before the home
CheckFieldsShellFirst(rec, home, shell, name) ==
    IF rec.isNone THEN Raised("TypeError")
    ELSE Returned((IF rec.shell # shell THEN <<usermod_s(shell, name)>> ELSE <<>>)
                  \o (IF rec.home # home THEN <<usermod_d(home, name)>> ELSE <<>>))

\* the else branch: user['home'] and user['shell'] against the arguments,
\* home first; on user = None the subscript raises TypeError
CheckFields(rec, home, shell, name) ==
    IF rec.isNone THEN Raised("TypeError")
    ELSE Returned((IF rec.home # home THEN <<usermod_d(home, name)>> ELSE <<>>)
                  \o (IF rec.shell # shell THEN <<usermod_s(shell, name)>> ELSE <<>>))

\* `file(filename, user=, group=, mode=)`: the module binds no name `file`
\* (only `files`), so this is the builtin file type, which takes no such
\* keyword arguments: the call raises TypeError (the module is Python 2,
\* see hash_.update(filename); where `file` is unbound it raises NameError)
builtin_file(filename, user, group, mode) == Raised("TypeError")

RECURSIVE KeyCommands(_, _)
KeyCommands(filename, public_keys) ==
    IF public_keys = <<>> THEN <<>>
    ELSE <<append_key(filename, Head(public_keys))>> \o KeyCommands(filename, Tail(public_keys))

\* `if public_keys is not None:` ... the .ssh directory, authorized_keys, the keys
AddSSHKeys(commands, name, home, public_keys, h) ==
    IF public_keys = NoneKeys THEN Returned(commands)
    ELSE LET ssh == directory(Str(home) \o "/.ssh", name, name, "700", h)
             filename == Str(home) \o "/.ssh/authorized_keys"
             authorized == builtin_file(filename, name, name, "600")
         IN IF authorized.status # "returned" THEN authorized
            ELSE Returned(commands \o ssh \o authorized.commands
                          \o KeyCommands(filename, public_keys))

user(name, present, home, shell, public_keys, h) ==
    LET users == UsersOrEmpty(h)
        rec == Get(users, name)
    IN IF WantsRemoval(present, rec) THEN Returned(<<userdel(name)>>)
       ELSE LET fields == IF WantsCreation(present, rec)
                          THEN Returned(<<useradd(home, shell, name)>>)
                          ELSE CheckFields(rec, home, shell, name)
            IN IF fields.status # "returned" THEN fields
               ELSE AddSSHKeys(fields.commands \o directory(home, name, name, None, h),
                               name, home, public_keys, h)

----------------------------------------------------------------------------
(* The executor: runs the commands of a plan on the host, in order, after  *)
(* which the facts show their effects.                                     *)

FirstSpace(s) ==
    IF \E i \in 1..Len(s) : SubSeq(s, i, i) = " "
    THEN CHOOSE i \in 1..Len(s) :
            /\ SubSeq(s, i, i) = " "
            /\ \A j \in 1..(i - 1) : SubSeq(s, j, j) # " "
    ELSE Len(s) + 1

RECURSIVE Words(_)
Words(s) ==
    IF s = "" THEN <<>>
    ELSE LET sp == FirstSpace(s)
         IN <<SubSeq(s, 1, sp - 1)>>
            \o (IF sp >= Len(s) THEN <<>> ELSE Words(SubSeq(s, sp + 1, Len(s))))

Without(dict, key) == [k \in DOMAIN dict \ {key} |-> dict[k]]
With(dict, key, value) == [k \in DOMAIN dict \cup {key} |-> IF k = key THEN value ELSE dict[k]]

NewDirectory == [exists |-> TRUE, user |-> "root", group |-> "root", mode |-> "755"]

RunUsers(dict, w) ==
    CASE w[1] = "userdel" -> Without(dict, w[2])
      [] w[1] = "useradd" -> With(dict, w[6], [home |-> w[3], shell |-> w[5]])
      [] w[1] = "usermod" /\ w[2] = "-d" /\ w[4] \in DOMAIN dict ->
            With(dict, w[4], [dict[w[4]] EXCEPT !.home = w[3]])
      [] w[1] = "usermod" /\ w[2] = "-s" /\ w[4] \in DOMAIN dict ->
            With(dict, w[4], [dict[w[4]] EXCEPT !.shell = w[3]])
      [] OTHER -> dict

RunDirectory(dict, w) ==
    CASE w[1] = "mkdir" -> With(dict, w[3], NewDirectory)
      [] w[1] = "chown" /\ w[3] \in DOMAIN dict ->
            With(dict, w[3], [dict[w[3]] EXCEPT !.user = w[2]])
      [] w[1] = "chgrp" /\ w[3] \in DOMAIN dict ->
            With(dict, w[3], [dict[w[3]] EXCEPT !.group = w[2]])
      [] w[1] = "chmod" /\ Len(w) = 3 /\ w[3] \in DOMAIN dict ->
            With(dict, w[3], [dict[w[3]] EXCEPT !.mode = w[2]])
      [] OTHER -> dict

Run(h, command) ==
    LET w == Words(command)
    IN [h EXCEPT !.users.dict = RunUsers(@, w), !.directory = RunDirectory(@, w)]

RECURSIVE RunAll(_, _)
RunAll(h, commands) ==
    IF commands = <<>> THEN h ELSE RunAll(Run(h, Head(commands)), Tail(commands))

----------------------------------------------------------------------------
(* The state machine: one reconciliation run calls an operation on the     *)
(* facts of the host; the plan it returns may be executed and the same     *)
(* call made again on the facts that result.                               *)

UserRecords == [home : HomePaths, shell : ShellPaths]
UserDicts == UNION {[S -> UserRecords] : S \in SUBSET Names}

Owners == {"root"} \cup Names
DirectoryFacts == {Absent} \cup {[NewDirectory EXCEPT !.user = o, !.group = o] : o \in Owners}

NoCall == [op |-> "none", name |-> "", present |-> FALSE, home |-> None, shell |-> None,
           public_keys |-> NoneKeys, filename |-> ""]
NoResult == [status |-> "none", commands |-> <<>>]

UserCall(name, present, home, shell, public_keys) ==
    [NoCall EXCEPT !.op = "user", !.name = name, !.present = present, !.home = home,
                   !.shell = shell, !.public_keys = public_keys]
ScriptCall(filename) == [NoCall EXCEPT !.op = "script", !.filename = filename]

Invoke(c, h) ==
    IF c.op = "user" THEN user(c.name, c.present, c.home, c.shell, c.public_keys, h)
    ELSE script(c.filename)

Init ==
    /\ host \in [users : {NoUsers} \cup {UsersFact(d) : d \in UserDicts},
                 directory : [HomePaths -> DirectoryFacts],
                 file : {EmptyDict}]
    /\ pc = "idle"
    /\ call = NoCall
    /\ result = NoResult
    /\ prev = [call |-> NoCall, result |-> NoResult]

CallUser ==
    /\ pc = "idle"
    /\ \E name \in Names, present \in BOOLEAN, home \in Homes, shell \in Shells,
          public_keys \in KeyLists :
            /\ call' = UserCall(name, present, home, shell, public_keys)
            /\ result' = user(name, present, home, shell, public_keys, host)
    /\ pc' = "returned"
    /\ UNCHANGED <<host, prev>>

CallScript ==
    /\ pc = "idle"
    /\ \E filename \in Filenames :
            /\ call' = ScriptCall(filename)
            /\ result' = script(filename)
    /\ pc' = "returned"
    /\ UNCHANGED <<host, prev>>

\* the plan of a user call on a fetched users fact is executed
Execute ==
    /\ pc = "returned"
    /\ call.op = "user"
    /\ result.status = "returned"
    /\ ~host.users.isNone
    /\ host' = RunAll(host, result.commands)
    /\ pc' = "executed"
    /\ UNCHANGED <<call, result, prev>>

\* the same user call, on the facts after the execution of its plan
CallUserAgain ==
    /\ pc = "executed"
    /\ prev' = [call |-> call, result |-> result]
    /\ result' = Invoke(call, host)
    /\ pc' = "again"
    /\ UNCHANGED <<host, call>>

\* a second script call in a later run, with the same or another filename
CallScriptAgain ==
    /\ pc = "returned"
    /\ call.op = "script"
    /\ prev' = [call |-> call, result |-> result]
    /\ \E filename \in Filenames :
            /\ call' = ScriptCall(filename)
            /\ result' = script(filename)
    /\ pc' = "again"
    /\ UNCHANGED host

Next == CallUser \/ CallScript \/ Execute \/ CallUserAgain \/ CallScriptAgain

Spec == Init /\ [][Next]_vars

----------------------------------------------------------------------------
(* Vocabulary of the properties *)

\* the state right after a call: `result` is what `call` yielded on `host`
UserCalled == call.op = "user" /\ pc \in {"returned", "again"}
ScriptCalled == call.op = "script" /\ pc \in {"returned", "again"}

\* the users fact was fetched; it holds a record for the name of the call
Fetched == ~host.users.isNone
HasRecord == Fetched /\ call.name \in DOMAIN host.users.dict
Observed == host.users.dict[call.name]

IsUserdel(c) == StartsWith(c, "userdel ")
IsUseradd(c) == StartsWith(c, "useradd ")
IsUsermod(c) == StartsWith(c, "usermod ")
IsUsermodHome(c) == StartsWith(c, "usermod -d ")
IsUsermodShell(c) == StartsWith(c, "usermod -s ")
IsPathCommand(c) ==
    StartsWith(c, "mkdir ") \/ StartsWith(c, "chown ") \/ StartsWith(c, "chgrp ")
    \/ StartsWith(c, "chmod ") \/ StartsWith(c, "touch ")

Contains(s, sub) ==
    \E i \in 1..(Len(s) - Len(sub) + 1) : SubSeq(s, i, i + Len(sub) - 1) = sub

Where(commands, Is(_)) == {i \in DOMAIN commands : Is(commands[i])}

Last(commands) == commands[Len(commands)]

----------------------------------------------------------------------------
\* C1: removal precedence. A call with present=False on a users fact that
\* holds a record for the name returns exactly [userdel name], whatever
\* home, shell and public_keys are.
RemovalPrecedence ==
    (UserCalled /\ ~call.present /\ HasRecord)
        => result = Returned(<<"userdel " \o call.name>>)

RemovalWitness ==
    /\ pc = "returned" /\ call.op = "user" /\ ~call.present /\ HasRecord
    /\ call.home # None /\ call.home # Observed.home
    /\ call.shell # None /\ call.shell # Observed.shell
    /\ call.public_keys # NoneKeys /\ Len(call.public_keys) >= 1

\* C2: idempotence. The same call, made again on the facts that show the
\* effects of the plan it first returned, returns the empty plan.
Idempotence ==
    (pc = "again" /\ call.op = "user") => result = Returned(<<>>)

\* C3: minimality. No command of the plan sets home or shell when the call
\* leaves that field unset (None), nor when the record of the user already
\* has the wanted value.
Minimality ==
    (UserCalled /\ Fetched) =>
        \A i \in DOMAIN result.commands :
            LET c == result.commands[i] IN
            /\ (IsUsermodHome(c) \/ IsUseradd(c)) => call.home # None
            /\ (IsUsermodShell(c) \/ IsUseradd(c)) => call.shell # None
            /\ (IsUsermodHome(c) /\ HasRecord) => Observed.home # call.home
            /\ (IsUsermodShell(c) /\ HasRecord) => Observed.shell # call.shell

\* C4: totality. On a fetched users fact every call of user returns a plan;
\* it raises nothing.
Totality ==
    (UserCalled /\ Fetched) => result.status = "returned"

\* C5: an unavailable users fact is fatal. When host.users yields nothing
\* the call returns no plan at all.
FactUnavailableIsFatal ==
    (UserCalled /\ ~Fetched) => result.status # "returned"

\* C6: public keys. A call with present=True and a list of keys returns a
\* plan that ends with the commands of the .ssh directory (mode 700), those
\* of the authorized_keys file (mode 600) and one check-then-append command
\* per key, in the order of the list; with public_keys=None no command
\* names .ssh.
PublicKeys ==
    (UserCalled /\ call.present) =>
        IF call.public_keys = NoneKeys
        THEN \A i \in DOMAIN result.commands : ~Contains(result.commands[i], "/.ssh")
        ELSE LET filename == Str(call.home) \o "/.ssh/authorized_keys"
                 keys == directory(Str(call.home) \o "/.ssh", call.name, call.name, "700", host)
                         \o files_file(filename, call.name, call.name, "600", host)
                         \o KeyCommands(filename, call.public_keys)
                 n == Len(result.commands)
             IN /\ result.status = "returned"
                /\ n >= Len(keys)
                /\ SubSeq(result.commands, n - Len(keys) + 1, n) = keys

\* C7: creation. A call with present=True on a fetched users fact without a
\* record for the name returns a plan whose first command is the useradd
\* with the wanted home and shell, and which holds no other useradd, no
\* usermod and no userdel.
CreationBranch ==
    (UserCalled /\ call.present /\ Fetched /\ ~HasRecord) =>
        /\ result.status = "returned"
        /\ Len(result.commands) >= 1
        /\ result.commands[1] = "useradd -d " \o Str(call.home) \o " -s " \o Str(call.shell)
                                \o " " \o call.name
        /\ Where(result.commands, IsUseradd) = {1}
        /\ Where(result.commands, IsUsermod) = {}
        /\ Where(result.commands, IsUserdel) = {}

\* C8: field ordering. A call user(name, present=True, home, shell) on a
\* record of the name returns a plan with one `usermod -d` exactly when the
\* home differs and one `usermod -s` exactly when the shell differs, each
\* with the wanted value; when both differ the home change comes first.
FieldOrdering ==
    (UserCalled /\ call.present /\ HasRecord /\ call.public_keys = NoneKeys) =>
        LET homes == Where(result.commands, IsUsermodHome)
            shells == Where(result.commands, IsUsermodShell)
        IN /\ result.status = "returned"
           /\ Where(result.commands, IsUsermod) = homes \cup shells
           /\ Cardinality(homes) = IF Observed.home # call.home THEN 1 ELSE 0
           /\ Cardinality(shells) = IF Observed.shell # call.shell THEN 1 ELSE 0
           /\ \A i \in homes :
                result.commands[i] = "usermod -d " \o Str(call.home) \o " " \o call.name
           /\ \A i \in shells :
                result.commands[i] = "usermod -s " \o Str(call.shell) \o " " \o call.name
           /\ \A i \in homes, j \in shells : i < j

FieldOrderingWitness ==
    /\ pc = "returned" /\ call.op = "user" /\ call.present /\ HasRecord
    /\ call.public_keys = NoneKeys
    /\ call.home \in HomePaths /\ Observed.home # call.home
    /\ call.shell \in ShellPaths /\ Observed.shell # call.shell

\* C9: script. The plan of script(filename) is the upload of filename to a
\* path under /tmp named by the digest of filename, then `chmod +x` of that
\* path, then the path itself; a later call with the same filename has the
\* same path.
ScriptPlan ==
    ScriptCalled =>
        LET n == Len(result.commands)
            temp == Last(result.commands)
        IN /\ result.status = "returned"
           /\ n >= 2
           /\ temp = "/tmp/" \o hexdigest(call.filename)
           /\ result.commands[n - 1] = "chmod +x " \o temp
           /\ SubSeq(result.commands, 1, n - 2) = put(call.filename, temp)
           /\ (pc = "again" /\ prev.call.filename = call.filename)
                => Last(prev.result.commands) = temp

ScriptWitness ==
    /\ pc = "again" /\ call.op = "script"
    /\ prev.call.filename = call.filename
    /\ Len(call.filename) = MaxFilenameLen
    /\ Len(result.commands) = 3

\* C10: home directory. A call that does not take the removal branch
\* (present=True) returns a plan made of its useradd/usermod commands, then
\* the commands of the directory sub-operation for the home (owner and
\* group = name), then nothing but .ssh commands; a call that takes the
\* removal branch has no directory command in its plan.
HomeDirectoryComposition ==
    UserCalled =>
        IF ~call.present /\ HasRecord
        THEN Where(result.commands, IsPathCommand) = {}
        ELSE call.present =>
            LET fields == Where(result.commands, IsUseradd) \cup Where(result.commands, IsUsermod)
                k == Cardinality(fields)
                d == directory(call.home, call.name, call.name, None, host)
                n == Len(result.commands)
            IN /\ result.status = "returned"
               /\ fields = 1..k
               /\ n >= k + Len(d)
               /\ SubSeq(result.commands, k + 1, k + Len(d)) = d
               /\ \A i \in (k + Len(d) + 1)..n : Contains(result.commands[i], "/.ssh")

====
